---------------------------- MODULE Spec2Model ----------------------------
(***************************************************************************)
(* Model of the migration-index fixers of app/backend/scripts:             *)
(*                                                                         *)
(*   fix_migration_indexes.py      the one-shot patcher (PatchSpec) and    *)
(*                                 its statement rewriter (BlockSpec)      *)
(*   fix_all_migration_indexes.py  the iterative, error-driven fixer       *)
(*                                 (Spec, ProgressSpec)                    *)
(*                                                                         *)
(* Text is a sequence of tokens.  A token is a piece of text that the      *)
(* scripts' substring tests and regular expressions treat as a unit:       *)
(*                                                                         *)
(*   stmt     CREATE INDEX IF NOT EXISTS "idx" ON "tbl" USING btree (cols) *)
(*            ;--> statement-breakpoint                                    *)
(*   sql      any other statement, ending in ;--> statement-breakpoint     *)
(*   nl       the line terminator "\n"                                     *)
(*   ws       indentation at the start of a line                           *)
(*   do ... end   the fifteen lines of a conditional block, one token per  *)
(*            line: "do" is the text DO $$, "cihead" is the indented line  *)
(*            CREATE INDEX IF NOT EXISTS "idx", "end" is                   *)
(*            END$$;--> statement-breakpoint                               *)
(*                                                                         *)
(* Index names are numbers, table and column names are strings; a column   *)
(* list is the sequence of its (quoted) column names.                      *)
(***************************************************************************)
EXTENDS Integers, Sequences, FiniteSets, TLC

VARIABLES
    file,          \* content of drizzle/0027_high_amphibian.sql
    lines,         \* one-shot main: the lines read (readlines)
    fixed_lines,   \* one-shot main: the lines written (writelines)
    runs,          \* number of completed executions of the one-shot patcher
    attempt,       \* iterative main: attempt counter
    pc,            \* position of the process (RUNNING, FIXING, DONE, FAILED, ...)
    exit_code,     \* exit status of the process, -1 while it runs
    output,        \* iterative main: captured output of the last migration run
    all_recognized,\* history: every migration run so far reported a recognized failure
    catalog,       \* information_schema.columns: set of <<table_name, column_name>>
    branch         \* branch taken by an executed conditional block

vars == <<file, lines, fixed_lines, runs, attempt, pc, exit_code, output,
          all_recognized, catalog, branch>>

---------------------------------------------------------------------------
(* Bounds of the model *)

MaxLines == 3
MaxRuns == 2
MaxCols == 2
MaxFailing == 51

Tables == {"t", "u"}
Columns == {"a", "b"}

---------------------------------------------------------------------------
(* Tokens *)

Tok(k, idx, tbl, cols) == [k |-> k, idx |-> idx, tbl |-> tbl, cols |-> cols]
Plain(k) == Tok(k, 0, "", <<>>)
NL == Plain("nl")
WS == Plain("ws")
DoMarker == Plain("do")
EndMarker == Plain("end")
OtherSql == Plain("sql")
Stmt(idx, tbl, cols) == Tok("stmt", idx, tbl, cols)

\* tokens whose text holds the delimiter --> statement-breakpoint
Delimiters(text) ==
    Cardinality({i \in 1..Len(text) : text[i].k \in {"stmt", "sql", "end"}})

\* 'CREATE INDEX IF NOT EXISTS' in line
HasCreateIndex(line) ==
    \E i \in 1..Len(line) : line[i].k \in {"stmt", "cihead"}

\* 'DO $$' in line
HasDoMarker(line) == \E i \in 1..Len(line) : line[i].k = "do"

\* The captured text of a migration run, by what main and extract_error_info
\* look for in it: the two success markers, the marker 'ERROR: Error running
\* migrations', and the groups <<column, index, table>> of the first match of
\* the error pattern (<<>> when the pattern matches nowhere).
NoTriple == <<>>
NoOutput ==
    [completed |-> FALSE, nothing_to_apply |-> FALSE, error |-> FALSE,
     match |-> NoTriple]

---------------------------------------------------------------------------
(* fix_migration_indexes.py *)

\* f.readlines(): the text split after every line terminator, terminators kept
RECURSIVE readlines(_)
readlines(text) ==
    IF text = <<>> THEN <<>>
    ELSE LET ends == {i \in 1..Len(text) : text[i].k = "nl"} \cup {Len(text)}
             p == CHOOSE i \in ends : \A j \in ends : i <= j
         IN  <<SubSeq(text, 1, p)>> \o readlines(SubSeq(text, p + 1, Len(text)))

\* f.writelines(): the lines one after the other, nothing added between them
RECURSIVE writelines(_)
writelines(ls) ==
    IF ls = <<>> THEN <<>> ELSE Head(ls) \o writelines(Tail(ls))

\* A variant of the block that carries the original statement, as one line, in
\* its THEN branch.
conditional_block_verbatim(index_name, table_name, columns) ==
    << DoMarker, NL, Plain("begin"), NL, Plain("ifexists"), NL,
       Plain("select"), NL, Plain("from"), NL,
       Tok("where", 0, table_name, <<>>), NL,
       Tok("andparen", 0, "", columns), NL,
       Plain("then"), NL,
       Stmt(index_name, table_name, columns), NL,
       Tok("created", index_name, "", <<>>), NL,
       Plain("else"), NL,
       Tok("skipped", 0, table_name, <<>>), NL,
       Plain("endif"), NL,
       EndMarker >>

\* The f-string of lines 34-48.  "andparen" is the line
\*   AND (column_name = 'c1' AND ... AND column_name = 'cn')
\* with one comparison per entry of column_list, in order.  The text ends with
\* the delimiter and holds no line terminator after it.
conditional_block(index_name, table_name, columns) ==
    << DoMarker, NL, Plain("begin"), NL, Plain("ifexists"), NL,
       Plain("select"), NL, Plain("from"), NL,
       Tok("where", 0, table_name, <<>>), NL,
       Tok("andparen", 0, "", columns), NL,
       Plain("then"), NL,
       Tok("cihead", index_name, "", <<>>), NL,
       Tok("on", 0, table_name, columns), NL,
       Tok("created", index_name, "", <<>>), NL,
       Plain("else"), NL,
       Tok("skipped", 0, table_name, <<>>), NL,
       Plain("endif"), NL,
       EndMarker >>

\* re.match anchors the pattern at the start of the line and lets anything follow
\* it; the function returns the block alone.
fix_index_creation(line) ==
    IF line # <<>> /\ line[1].k = "stmt"
    THEN conditional_block(line[1].idx, line[1].tbl, line[1].cols)
    ELSE line

\* The body of the for loop of main for line i (skip_next is never set).
fixed_line(ls, i) ==
    IF HasCreateIndex(ls[i]) /\ ~HasDoMarker(ls[i])
    THEN IF i + 1 <= Len(ls) /\ HasDoMarker(ls[i + 1])
         THEN ls[i]
         ELSE fix_index_creation(ls[i])
    ELSE ls[i]

\* One execution of the one-shot patcher: read, rewrite line by line, write back.
PatcherMain ==
    /\ pc = "PATCHER"
    /\ runs < MaxRuns
    /\ LET ls == readlines(file)
           fl == [i \in 1..Len(ls) |-> fixed_line(ls, i)]
       IN  /\ lines' = ls
           /\ fixed_lines' = fl
           /\ file' = writelines(fl)
    /\ runs' = runs + 1
    /\ UNCHANGED <<attempt, pc, exit_code, output, all_recognized, catalog, branch>>

---------------------------------------------------------------------------
(* Migration files given to the one-shot patcher *)

S1 == Stmt(1, "t", <<"a">>)
S2 == Stmt(2, "t", <<"a", "b">>)

\* Lines of a migration file: index statements, another statement, the first
\* line of a DO block, its last line, an indented index statement, and an index
\* statement with a second statement after it on the same line.
LineKinds ==
    { <<S1, NL>>, <<S2, NL>>, <<OtherSql, NL>>, <<DoMarker, NL>>,
      <<EndMarker, NL>>, <<WS, S1, NL>>, <<S1, OtherSql, NL>> }

RECURSIVE FilesOf(_)
FilesOf(n) ==
    IF n = 0 THEN {<<>>}
    ELSE {l \o f : l \in LineKinds, f \in FilesOf(n - 1)}

\* with and without a terminator on the last line
PatchFiles ==
    LET whole == UNION {FilesOf(n) : n \in 1..MaxLines}
    IN  whole \cup {SubSeq(f, 1, Len(f) - 1) : f \in whole}

PatchInit ==
    /\ file \in PatchFiles
    /\ lines = <<>>
    /\ fixed_lines = <<>>
    /\ runs = 0
    /\ attempt = 0
    /\ pc = "PATCHER"
    /\ exit_code = -1
    /\ output = NoOutput
    /\ all_recognized = TRUE
    /\ catalog = {}
    /\ branch = "none"

PatchNext == PatcherMain

PatchSpec == PatchInit /\ [][PatchNext]_vars

---------------------------------------------------------------------------
(* Properties of the one-shot patcher *)

\* line i of the input was replaced by something else
Rewritten(i) == fixed_lines[i] # lines[i]

\* a line that is exactly one index statement, with or without its terminator
WellFormedIndexLine(line) ==
    /\ Len(line) \in {1, 2}
    /\ line[1].k = "stmt"
    /\ Len(line) = 2 => line[2].k = "nl"

\* line i lies after the first line of a DO block that has not ended yet
InsideBlock(ls, i) ==
    \E j \in 1..(i - 1) :
        /\ HasDoMarker(ls[j])
        /\ \A m \in j..(i - 1) : \A q \in 1..Len(ls[m]) : ls[m][q].k # "end"

RECURSIVE IsSubsequence(_, _)
IsSubsequence(a, b) ==
    IF a = <<>> THEN TRUE
    ELSE IF b = <<>> THEN FALSE
    ELSE IF Head(a) = Head(b) THEN IsSubsequence(Tail(a), Tail(b))
    ELSE IsSubsequence(a, Tail(b))

\* C4: after a run of the one-shot patcher, every well-formed index statement
\* line of the input that was not inside a conditional block has been rewritten
\* into a conditional block.
C4_AllBareRewritten ==
    runs >= 1 =>
        \A i \in 1..Len(lines) :
            (WellFormedIndexLine(lines[i]) /\ ~InsideBlock(lines, i))
                => (Rewritten(i) /\ fixed_lines[i][1].k = "do")

\* C5: the one-shot patcher is idempotent: its second run on the file written by
\* the first run writes that file back unchanged, rewriting no line of it.
C5_Idempotent ==
    runs = 2 => (file = writelines(lines) /\ fixed_lines = lines)

\* C5 witness: after the second run the file holds a converted block whose last
\* line is joined with a bare index statement that follows it.
C5_Witness ==
    /\ runs = 2
    /\ \E i \in 1..(Len(file) - 1) : file[i].k = "end" /\ file[i + 1].k = "stmt"
    /\ \E i \in 1..Len(file) : file[i].k = "cihead"

\* C8: the one-shot patcher keeps the number of statement-breakpoint delimiters,
\* puts each block at the position of the line it replaces, ending with the
\* delimiter, and keeps every other line, unchanged and in order, as a line of
\* the written file.
C8_OrderAndDelimiter ==
    runs >= 1 =>
        /\ Delimiters(file) = Delimiters(writelines(lines))
        /\ Len(fixed_lines) = Len(lines)
        /\ \A i \in 1..Len(lines) :
               Rewritten(i) => fixed_lines[i][Len(fixed_lines[i])].k = "end"
        /\ IsSubsequence(
               [j \in 1..Cardinality({i \in 1..Len(lines) : ~Rewritten(i)}) |->
                   lines[CHOOSE i \in 1..Len(lines) :
                            /\ ~Rewritten(i)
                            /\ Cardinality({m \in 1..i : ~Rewritten(m)}) = j]],
               readlines(file))

\* C10: a rewritten line ends with the line terminator of the line it replaces.
C10_TerminatorKept ==
    runs >= 1 =>
        \A i \in 1..Len(lines) :
            (Rewritten(i) /\ lines[i][Len(lines[i])].k = "nl")
                => fixed_lines[i][Len(fixed_lines[i])].k = "nl"

---------------------------------------------------------------------------
(* The statement rewriter and the block it produces *)

ColLists == UNION {[1..n -> Columns] : n \in 1..MaxCols}

\* IF EXISTS (SELECT 1 FROM information_schema.columns
\*            WHERE table_name = 't' AND (column_name = 'c1' AND ...)):
\* some one row of the catalog satisfies every comparison of the WHERE clause.
IfExists(block, cat) ==
    LET w == block[CHOOSE i \in 1..Len(block) : block[i].k = "where"]
        a == block[CHOOSE i \in 1..Len(block) : block[i].k = "andparen"]
    IN  \E row \in cat :
            /\ row[1] = w.tbl
            /\ \A i \in 1..Len(a.cols) : row[2] = a.cols[i]

\* fix_index_creation applied to one index statement line
Rewrite ==
    /\ pc = "LINE"
    /\ lines' = <<file>>
    /\ fixed_lines' = <<fix_index_creation(file)>>
    /\ file' = fix_index_creation(file)
    /\ pc' = "BLOCK"
    /\ UNCHANGED <<runs, attempt, exit_code, output, all_recognized, catalog, branch>>

\* the database executes the block
Execute ==
    /\ pc = "BLOCK"
    /\ branch' = IF IfExists(file, catalog) THEN "create" ELSE "skip"
    /\ pc' = "EXECUTED"
    /\ UNCHANGED <<file, lines, fixed_lines, runs, attempt, exit_code, output,
                   all_recognized, catalog>>

BlockInit ==
    /\ file \in {<<Stmt(1, t, cols), NL>> : t \in Tables, cols \in ColLists}
    /\ catalog \in SUBSET (Tables \X Columns)
    /\ lines = <<>>
    /\ fixed_lines = <<>>
    /\ runs = 0
    /\ attempt = 0
    /\ pc = "LINE"
    /\ exit_code = -1
    /\ output = NoOutput
    /\ all_recognized = TRUE
    /\ branch = "none"

BlockNext == Rewrite \/ Execute

BlockSpec == BlockInit /\ [][BlockNext]_vars

\* C6: the block produced for an index on table t over columns c1..cn takes the
\* CREATE INDEX branch exactly when every one of c1..cn exists on t.
C6_CreatesIffAllColumnsExist ==
    pc = "EXECUTED" =>
        LET s == lines[1][1]
        IN  (branch = "create") <=>
                (\A i \in 1..Len(s.cols) : <<s.tbl, s.cols[i]>> \in catalog)

---------------------------------------------------------------------------
(* fix_all_migration_indexes.py *)

max_attempts == 50

Outputs ==
    [completed : BOOLEAN, nothing_to_apply : BOOLEAN, error : BOOLEAN,
     match : {NoTriple} \cup (Columns \X (1..2) \X {"t"})]

\* re.search of the error pattern: the groups of the match, or (None, None, None)
extract_error_info(out) == out.match

\* a success test that knows only the first marker
Succeeded_first_marker(out) == out.completed

\* line 83: either success marker is in the output
Succeeded(out) == out.completed \/ out.nothing_to_apply

\* line 88
HasErrorMarker(out) == out.error

\* line 91: the three groups are non-empty strings whenever the pattern matched
Extracted(out) == extract_error_info(out) # NoTriple

\* a loop test that is off by one
LoopContinues_off_by_one == attempt <= max_attempts

\* line 75: while attempt < max_attempts
LoopContinues == attempt < max_attempts

\* a replacement whose last line lacks the delimiter
replacement_no_delimiter(table_name, column_name, index_name) ==
    << DoMarker, NL, Plain("begin"), NL, Plain("ifexists"), NL,
       Plain("select"), NL, Plain("from"), NL,
       Tok("where", 0, table_name, <<>>), NL,
       Tok("and", 0, "", <<column_name>>), NL,
       Plain("then"), NL,
       Tok("cihead", index_name, "", <<>>), NL,
       Tok("on", 0, table_name, <<column_name>>), NL,
       Tok("created", index_name, "", <<>>), NL,
       Plain("else"), NL,
       Tok("skippedcol", 0, table_name, <<column_name>>), NL,
       Plain("endif"), NL,
       Plain("endnodelim") >>

\* The f-string of lines 46-60: "and" is the line AND column_name = 'c',
\* "skippedcol" the notice naming the column and the table.
replacement(table_name, column_name, index_name) ==
    << DoMarker, NL, Plain("begin"), NL, Plain("ifexists"), NL,
       Plain("select"), NL, Plain("from"), NL,
       Tok("where", 0, table_name, <<>>), NL,
       Tok("and", 0, "", <<column_name>>), NL,
       Plain("then"), NL,
       Tok("cihead", index_name, "", <<>>), NL,
       Tok("on", 0, table_name, <<column_name>>), NL,
       Tok("created", index_name, "", <<>>), NL,
       Plain("else"), NL,
       Tok("skippedcol", 0, table_name, <<column_name>>), NL,
       Plain("endif"), NL,
       EndMarker >>

\* re.sub(pattern, repl, content): every occurrence of the pattern, anywhere in
\* the text, is replaced
RECURSIVE re_sub(_, _, _)
re_sub(pattern, repl, content) ==
    LET hits == {i \in 1..Len(content) : content[i] = pattern}
    IN  IF hits = {} THEN content
        ELSE LET p == CHOOSE i \in hits : \A j \in hits : i <= j
             IN  SubSeq(content, 1, p - 1) \o repl
                    \o re_sub(pattern, repl, SubSeq(content, p + 1, Len(content)))

\* a fix whose pattern matches nothing
fix_index_in_migration_no_match(content, table_name, column_name, index_name) ==
    content

\* The new content of the migration file.  The pattern is the single-column
\* statement of that index, table and column, up to and including the delimiter.
fix_index_in_migration(content, table_name, column_name, index_name) ==
    re_sub(Stmt(index_name, table_name, <<column_name>>),
           replacement(table_name, column_name, index_name),
           content)

\* lines 75-85: the run's output holds a success marker; main returns
RunSucceeds(out) ==
    /\ pc = "RUNNING"
    /\ LoopContinues
    /\ Succeeded(out)
    /\ attempt' = attempt + 1
    /\ output' = out
    /\ pc' = "DONE"
    /\ exit_code' = 0
    /\ all_recognized' = FALSE
    /\ UNCHANGED <<file, lines, fixed_lines, runs, catalog, branch>>

\* lines 75-93: the error marker and a complete triple; the fix comes next
RunRecognized(out) ==
    /\ pc = "RUNNING"
    /\ LoopContinues
    /\ ~Succeeded(out)
    /\ HasErrorMarker(out)
    /\ Extracted(out)
    /\ attempt' = attempt + 1
    /\ output' = out
    /\ pc' = "FIXING"
    /\ UNCHANGED <<file, lines, fixed_lines, runs, exit_code, all_recognized,
                   catalog, branch>>

\* lines 96-99: the error marker, but no triple
RunUnextractable(out) ==
    /\ pc = "RUNNING"
    /\ LoopContinues
    /\ ~Succeeded(out)
    /\ HasErrorMarker(out)
    /\ ~Extracted(out)
    /\ attempt' = attempt + 1
    /\ output' = out
    /\ pc' = "FAILED"
    /\ exit_code' = 1
    /\ all_recognized' = FALSE
    /\ UNCHANGED <<file, lines, fixed_lines, runs, catalog, branch>>

\* an unexpected error that is taken for a transient one
RunUnexpected_retry(out) ==
    /\ pc = "RUNNING"
    /\ LoopContinues
    /\ ~Succeeded(out)
    /\ ~HasErrorMarker(out)
    /\ attempt' = attempt + 1
    /\ output' = out
    /\ all_recognized' = FALSE
    /\ UNCHANGED <<file, lines, fixed_lines, runs, pc, exit_code, catalog, branch>>

\* lines 100-103: neither a success marker nor the error marker
RunUnexpected(out) ==
    /\ pc = "RUNNING"
    /\ LoopContinues
    /\ ~Succeeded(out)
    /\ ~HasErrorMarker(out)
    /\ attempt' = attempt + 1
    /\ output' = out
    /\ pc' = "FAILED"
    /\ exit_code' = 1
    /\ all_recognized' = FALSE
    /\ UNCHANGED <<file, lines, fixed_lines, runs, catalog, branch>>

\* subprocess.run raises after 300 s (or cannot start npm): the exception is
\* caught nowhere and ends the process with status 1, no output assigned
RunRaises ==
    /\ pc = "RUNNING"
    /\ LoopContinues
    /\ attempt' = attempt + 1
    /\ pc' = "FAILED"
    /\ exit_code' = 1
    /\ all_recognized' = FALSE
    /\ UNCHANGED <<file, lines, fixed_lines, runs, output, catalog, branch>>

\* line 95: the file is rewritten and the loop goes round
Fix ==
    /\ pc = "FIXING"
    /\ LET t == extract_error_info(output)
       IN  file' = fix_index_in_migration(file, t[3], t[1], t[2])
    /\ pc' = "RUNNING"
    /\ UNCHANGED <<lines, fixed_lines, runs, attempt, exit_code, output,
                   all_recognized, catalog, branch>>

\* lines 105-106: the loop ends without a success
Exhausted ==
    /\ pc = "RUNNING"
    /\ ~LoopContinues
    /\ pc' = "FAILED"
    /\ exit_code' = 1
    /\ UNCHANGED <<file, lines, fixed_lines, runs, attempt, output,
                   all_recognized, catalog, branch>>

\* Migration files of the iterative fixer: up to two different lines out of
\* three index statements and one other statement.
LoopLines ==
    { <<Stmt(1, "t", <<"a">>), NL>>, <<Stmt(2, "t", <<"b">>), NL>>,
      <<Stmt(2, "t", <<"a", "b">>), NL>>, <<OtherSql, NL>> }

LoopFiles ==
    LoopLines \cup {pr[1] \o pr[2] : pr \in {q \in LoopLines \X LoopLines : q[1] # q[2]}}

Init ==
    /\ file \in LoopFiles
    /\ lines = <<>>
    /\ fixed_lines = <<>>
    /\ runs = 0
    /\ attempt = 0
    /\ pc = "RUNNING"
    /\ exit_code = -1
    /\ output = NoOutput
    /\ all_recognized = TRUE
    /\ catalog = {}
    /\ branch = "none"

Next ==
    \/ \E out \in Outputs : RunSucceeds(out)
    \/ \E out \in Outputs : RunRecognized(out)
    \/ \E out \in Outputs : RunUnextractable(out)
    \/ \E out \in Outputs : RunUnexpected(out)
    \/ RunRaises
    \/ Fix
    \/ Exhausted

Spec == Init /\ [][Next]_vars

---------------------------------------------------------------------------
(* Properties of the iterative fixer *)

Terminal == pc \in {"DONE", "FAILED"}

\* C1: the migration runner is invoked at most 50 times; when every run reported
\* a recognized failure the process has made exactly 50 attempts and ends FAILED
\* with exit code 1; after the 50th attempt no run is possible, only the exit.
C1_BoundedAttempts ==
    /\ attempt <= 50
    /\ (Terminal /\ all_recognized) =>
           (attempt = 50 /\ pc = "FAILED" /\ exit_code = 1)
    /\ (pc = "RUNNING" /\ attempt = 50) =>
           (ENABLED Exhausted /\ ~ENABLED RunRaises)

\* C1 witness: fifty recognized failures in a row, then FAILED.
C1_Witness ==
    pc = "FAILED" /\ all_recognized /\ attempt = 50 /\ exit_code = 1

\* neither success marker, and no error marker or no triple
C2_Unrecognized(out) ==
    /\ ~out.completed
    /\ ~out.nothing_to_apply
    /\ (~out.error \/ out.match = <<>>)

\* C2: a run whose output is neither a success nor a recognized failure ends the
\* process at that attempt with exit code 1 and the file untouched; a further
\* attempt is made only after a recognized failure, and never once FAILED.
C2_UnrecognizedIsFatal ==
    [][ /\ (attempt' = attempt + 1 /\ C2_Unrecognized(output')) =>
               (pc' = "FAILED" /\ exit_code' = 1 /\ file' = file)
        /\ (attempt' = attempt + 1 /\ attempt >= 1) =>
               (/\ ~output.completed /\ ~output.nothing_to_apply
                /\ output.error /\ output.match # <<>>)
        /\ pc = "FAILED" => (attempt' = attempt /\ file' = file /\ pc' = pc)
      ]_vars

\* C2 witness: the third run's output has the error marker but no triple.
C2_Witness ==
    /\ pc = "FAILED"
    /\ exit_code = 1
    /\ attempt = 3
    /\ output.error
    /\ C2_Unrecognized(output)

\* C3: a run whose output holds either success marker ends the loop in DONE with
\* exit code 0 at that attempt, the file untouched, and nothing happens after.
C3_SuccessEndsDone ==
    [][ /\ (attempt' = attempt + 1 /\ (output'.completed \/ output'.nothing_to_apply))
               => (pc' = "DONE" /\ exit_code' = 0 /\ file' = file)
        /\ pc = "DONE" =>
               (attempt' = attempt /\ file' = file /\ pc' = pc
                /\ exit_code' = exit_code)
      ]_vars

\* C3 witness: 'No migrations to apply' on the first run.
C3_Witness ==
    /\ pc = "DONE"
    /\ exit_code = 0
    /\ attempt = 1
    /\ output.nothing_to_apply
    /\ ~output.completed

\* C7: when the reported single-column statement stands (once) in the file, the
\* FIXING step puts a conditional block for the same index, table and column in
\* its place, ending with the delimiter, and changes nothing before or after it.
C7_FixReplacesStatement ==
    [][ (pc = "FIXING" /\ pc' = "RUNNING") =>
          LET t == output.match
              hits == {i \in 1..Len(file) : file[i] = Stmt(t[2], t[3], <<t[1]>>)}
          IN  Cardinality(hits) = 1 =>
                LET p == CHOOSE i \in hits : TRUE
                    n == Len(file') - Len(file) + 1
                    B == SubSeq(file', p, p + n - 1)
                IN  /\ n > 1
                    /\ SubSeq(file', 1, p - 1) = SubSeq(file, 1, p - 1)
                    /\ SubSeq(file', p + n, Len(file')) = SubSeq(file, p + 1, Len(file))
                    /\ B[1].k = "do"
                    /\ B[n].k = "end"
                    /\ \A j \in 1..n : B[j].k # "stmt"
                    /\ \E j \in 1..n : B[j] = Tok("cihead", t[2], "", <<>>)
                    /\ \E j \in 1..n : B[j] = Tok("on", 0, t[3], <<t[1]>>)
                    /\ \E j \in 1..n : B[j].k = "where" /\ B[j].tbl = t[3]
                    /\ \E j \in 1..n : B[j].k = "and" /\ B[j].cols = <<t[1]>>
      ]_vars

\* C7 witness: the reported statement has been converted and another statement
\* of the file is still bare.
C7_Witness ==
    /\ pc = "RUNNING"
    /\ output.match # <<>>
    /\ \E i \in 1..Len(file) : file[i] = Tok("cihead", output.match[2], "", <<>>)
    /\ \E i \in 1..Len(file) : file[i].k = "stmt"

---------------------------------------------------------------------------
(* The iterative fixer against a migration with N failing index statements *)

FailingStmt(i) == Stmt(i, "t", <<"a">>)

ProgressFile(n) ==
    [j \in 1..(2 * n) |-> IF j % 2 = 1 THEN FailingStmt((j + 1) \div 2) ELSE NL]

\* run_migration against such a database: the run fails on the first index
\* statement that is still bare and succeeds when none is left
MigrationOutput(content) ==
    LET bare == {i \in 1..Len(content) : content[i].k = "stmt"}
    IN  IF bare = {}
        THEN [completed |-> TRUE, nothing_to_apply |-> FALSE, error |-> FALSE,
              match |-> NoTriple]
        ELSE LET p == CHOOSE i \in bare : \A j \in bare : i <= j
             IN  [completed |-> FALSE, nothing_to_apply |-> FALSE, error |-> TRUE,
                  match |-> <<content[p].cols[1], content[p].idx, content[p].tbl>>]

ProgressInit ==
    /\ file \in {ProgressFile(n) : n \in 0..MaxFailing}
    /\ lines = <<>>
    /\ fixed_lines = <<>>
    /\ runs = 0
    /\ attempt = 0
    /\ pc = "RUNNING"
    /\ exit_code = -1
    /\ output = NoOutput
    /\ all_recognized = TRUE
    /\ catalog = {}
    /\ branch = "none"

ProgressNext ==
    \/ RunSucceeds(MigrationOutput(file))
    \/ RunRecognized(MigrationOutput(file))
    \/ Fix
    \/ Exhausted

ProgressSpec == ProgressInit /\ [][ProgressNext]_vars

NumBare(content) ==
    Cardinality({i \in 1..Len(content) : content[i].k = "stmt"})

NumBlocks(content) ==
    Cardinality({i \in 1..Len(content) : content[i].k = "do"})

\* C9: with N failing statements (bare ones plus converted ones) the loop is DONE
\* with exit code 0 after exactly N+1 runs when N <= 49, and FAILED with exit code
\* 1 after 50 runs and 50 conversions when N >= 50; every run before led to one
\* conversion (no statement is reported twice), and the loop never stops early.
C9_Progress ==
    LET N == NumBare(file) + NumBlocks(file)
    IN  /\ pc = "DONE" =>
               (N <= 49 /\ attempt = N + 1 /\ exit_code = 0 /\ NumBare(file) = 0)
        /\ pc = "FAILED" =>
               (N >= 50 /\ attempt = 50 /\ exit_code = 1 /\ NumBlocks(file) = 50)
        /\ pc = "RUNNING" => NumBlocks(file) = attempt
        /\ pc = "FIXING" =>
               (NumBlocks(file) = attempt - 1 /\ NumBare(file) >= 1)
        /\ ~Terminal => ENABLED ProgressNext

\* C9 witness: 49 failing statements, DONE at the 50th run.
C9_Witness ==
    pc = "DONE" /\ attempt = 50 /\ NumBlocks(file) = 49 /\ exit_code = 0

===========================================================================
